---------------------------- MODULE Spec2Model ----------------------------
(***************************************************************************)
(* A model of src/src/lib.rs: the UI helper layer of adamec_rs.            *)
(*                                                                         *)
(*   - the static asset cache (once_cell Lazy statics, raw_html!),         *)
(*   - the EventDispatcher (Arc<Mutex<F>>) and Button::render,             *)
(*   - the text helper and the icon helper (the typographic scale).        *)
(*                                                                         *)
(* f32 values are fixed-point integers in hundredths (17.0 is 1700, 2.5 is *)
(* 250); all values used are multiples of 0.25, which f32 represents and   *)
(* multiplies exactly.  Option<T> is a sequence of length at most one.     *)
(***************************************************************************)
EXTENDS Integers, Sequences, FiniteSets, TLC

VARIABLES
    TEXT_SCALE,   \* const TEXT_SCALE: f32 (hundredths)
    helper,       \* Option<IconHelper>: the icon builder being chained
    out,          \* Option<Dom>: the fragment the last operation returned, if any
    hist,         \* the last helper operation: its name, argument and receiver
    mapped        \* Option: what the last operation, if it was a direct call of
                  \* font_weight_to_icon_weight, was given and returned

styleVars == <<TEXT_SCALE, helper, out, hist, mapped>>

VARIABLES
    lazy,         \* the Lazy statics: per key, its state, its cell, its initializer runs
    slots,        \* the Arc<Mutex<F>> listeners: who holds the lock, poisoned or not
    handles,      \* per dispatcher the program makes, how many handles share it
    buttons,      \* Option per button: rendered, with the class it was given
    stack,        \* per thread, the send calls in progress, innermost last
    tstate,       \* per thread: "run", "unwinding" (a panic propagates), "deadlocked"
    sends,        \* every send issued, in order, with how it ended
    calls         \* every callback invocation, in the order they started

dispVars == <<slots, handles, buttons, stack, tstate, sends, calls>>

VARIABLES
    heap,         \* per icon, the DOM nodes of its markup's document and of the
                  \* copies made of them: node n is heap[k][n], children are ids
    acc,          \* per thread, the access to a static it is in the middle of
    frags,        \* per icon, the copies get_parsed_dom made, in order, each with
                  \* the children .child(..) moved out of it into the icon's div
    seen,         \* the class names accesses to the class statics returned
    nacc,         \* calls that use a static, begun by the threads
    muts          \* changes the host renderer made to rendered icon markup

cacheVars == <<heap, acc, frags, seen, nacc, muts>>

vars == <<styleVars, lazy, dispVars, cacheVars>>

---------------------------------------------------------------------------
(* Option<T> *)

None == <<>>

Some(x) == <<x>>

is_some(o) == o # <<>>

unwrap(o) == o[1]

---------------------------------------------------------------------------
(* f32 in hundredths, and its Display formatting *)

F32(n) == n * 100

F32Mul(a, b) == (a * b) \div 100

Digit(d) ==
    CASE d = 0 -> "0" [] d = 1 -> "1" [] d = 2 -> "2" [] d = 3 -> "3"
      [] d = 4 -> "4" [] d = 5 -> "5" [] d = 6 -> "6" [] d = 7 -> "7"
      [] d = 8 -> "8" [] d = 9 -> "9"

RECURSIVE Digits(_)
Digits(n) == IF n < 10 THEN Digit(n) ELSE Digits(n \div 10) \o Digit(n % 10)

\* format!("{}", v) for a non-negative f32 v: the shortest decimal that
\* round-trips, with no trailing zeros and no point for a whole number.
FormatF32(v) ==
    LET whole == v \div 100
        frac  == v % 100
    IN  IF frac = 0 THEN Digits(whole)
        ELSE IF frac % 10 = 0 THEN Digits(whole) \o "." \o Digit(frac \div 10)
        ELSE Digits(whole) \o "." \o Digit(frac \div 10) \o Digit(frac % 10)

\* format!("{}px", v)
FormatPx(v) == FormatF32(v) \o "px"

\* fn scaled_size(size: f32) -> String
scaled_size(size) == FormatPx(F32Mul(size, TEXT_SCALE))

---------------------------------------------------------------------------
(* FontStyle and IconStyle *)

FontStyle_new(size, leading) ==
    [size |-> size, leading |-> leading, weight |-> None, style |-> None]

FontStyle_weight(fs, w) == [fs EXCEPT !.weight = Some(w)]

FontStyle_italic(fs) == [fs EXCEPT !.style = Some("italic")]

IconStyle_new(size) == [size |-> size, weight |-> None]

font_weight_to_icon_weight_no_normal(weight) ==
    CASE weight = Some("bold") -> Some(300)
      [] weight = Some("600")  -> Some(250)
      [] OTHER                 -> None

font_weight_to_icon_weight(weight) ==
    CASE weight = Some("bold")   -> Some(300)
      [] weight = Some("600")    -> Some(250)
      [] weight = Some("normal") -> Some(200)
      [] OTHER                   -> None

STANDARD_FONT_CLASS == "standard-font-class"

ScaleNames ==
    {"large_title", "title", "title2", "title3", "headline", "body",
     "callout", "subheadline", "footnote", "caption", "caption2"}

---------------------------------------------------------------------------
(* Icon markup: the body children DomParser yields for each literal *)

Icons == {"Trash", "Plus"}

Elem(tag, attr, kids) == [tag |-> tag, attr |-> attr, kids |-> kids]

\* Leading white space is dropped by the HTML parser before <body> exists;
\* white space after </svg>, and between <svg> and <path>, is a text node.
MarkupBody(icon) ==
    IF icon = "Trash"
    THEN << Elem("svg", "0 0 24 24", << Elem("path", "trash-d", <<>>) >>),
            Elem("#text", "ws", <<>>) >>
    ELSE << Elem("svg", "0 0 16 16",
                 << Elem("#text", "ws", <<>>),
                    Elem("path", "var(--icon-weight, 2)", <<>>) >>),
            Elem("#text", "ws", <<>>) >>

\* The fragment a call of render_icon_svg yields, as a value.
FragmentTree(icon) == Elem("#document-fragment", "", MarkupBody(icon))

---------------------------------------------------------------------------
(* The Lazy statics *)

Threads == {"ui", "bg"}

MarkupKeys == Icons

ClassKeys == {"CLASS", "STANDARD_FONT_CLASS"}

Keys == MarkupKeys \cup ClassKeys

\* The class name class! generates for a static's style block
ClassName(k) == IF k = "CLASS" THEN "button-class" ELSE STANDARD_FONT_CLASS

LazyNew == [state |-> "uninit", cell |-> None, inits |-> 0]

\* Lazy::force with nobody else touching the static: the initializer runs
\* if it has not run yet, and the cell's value is what every caller gets.
LazyForcedClass(lz, k) ==
    IF lz[k].state = "uninit"
    THEN [lz EXCEPT ![k] = [state |-> "done", cell |-> Some(ClassName(k)),
                            inits |-> lz[k].inits + 1]]
    ELSE lz

\* &*STANDARD_FONT_CLASS
StandardFontClass(lz) ==
    unwrap(LazyForcedClass(lz, "STANDARD_FONT_CLASS")["STANDARD_FONT_CLASS"].cell)

\* Whether a caller of Lazy::force finds the static free to initialize,
\* were running initializers not excluded
LazyVacant_racy(lz) == lz.state \in {"uninit", "running"}

\* Whether a caller of Lazy::force is the one to run the initializer
LazyVacant(lz) == lz.state = "uninit"

---------------------------------------------------------------------------
(* DOM nodes and raw_html! *)

Node(tag, attr, kids) == [tag |-> tag, attr |-> attr, kids |-> kids]

RECURSIVE Structure(_, _)
\* The tree below node n, as a value
Structure(h, n) ==
    Elem(h[n].tag, h[n].attr, [i \in 1..Len(h[n].kids) |-> Structure(h, h[n].kids[i])])

RECURSIVE Nodes(_, _)
\* Node n and the nodes below it
Nodes(h, n) ==
    {n} \cup UNION { Nodes(h, h[n].kids[i]) : i \in 1..Len(h[n].kids) }

RECURSIVE BuildAll(_, _, _)
RECURSIVE Build(_, _)
\* The nodes of a parsed tree, children before parents
Build(h, tree) ==
    LET r == BuildAll(h, tree.kids, <<>>)
    IN  [heap |-> Append(r.heap, Node(tree.tag, tree.attr, r.ids)),
         root |-> Len(r.heap) + 1]

BuildAll(h, trees, ids) ==
    IF trees = <<>> THEN [heap |-> h, ids |-> ids]
    ELSE LET r == Build(h, Head(trees))
         IN  BuildAll(r.heap, Tail(trees), Append(ids, r.root))

\* parser.parse_from_string(html, TextHtml), then doc.body().child_nodes()
parse_from_string(h, ic) == BuildAll(h, MarkupBody(ic), <<>>)

\* doc.create_document_fragment()
create_document_fragment(h) ==
    [heap |-> Append(h, Node("#document-fragment", "", <<>>)), root |-> Len(h) + 1]

\* A copy that is the node itself
clone_node_shared(h, n) == [heap |-> h, root |-> n]

RECURSIVE CloneAll(_, _, _)
RECURSIVE CloneDeep(_, _)
CloneDeep(h, n) ==
    LET r == CloneAll(h, h[n].kids, <<>>)
    IN  [heap |-> Append(r.heap, Node(h[n].tag, h[n].attr, r.ids)),
         root |-> Len(r.heap) + 1]

CloneAll(h, ns, ids) ==
    IF ns = <<>> THEN [heap |-> h, ids |-> ids]
    ELSE LET r == CloneDeep(h, Head(ns))
         IN  CloneAll(r.heap, Tail(ns), Append(ids, r.root))

\* node.clone_node_with_deep(true)
clone_node_with_deep(h, n) == CloneDeep(h, n)

\* parent.append_child(child)
append_child(h, parent, child) == [h EXCEPT ![parent].kids = Append(@, child)]

RECURSIVE AppendClones(_, _, _)
\* The loop of the initializer: a deep copy of each child, appended
AppendClones(h, kids, frag) ==
    IF kids = <<>> THEN h
    ELSE LET c == clone_node_with_deep(h, Head(kids))
         IN  AppendClones(append_child(c.heap, frag, c.root), Tail(kids), frag)

\* get_parsed_dom with no other thread using PARSED_NODE: the initializer
\* runs to its end if it has not run yet, then the cached node is copied.
get_parsed_dom(lz, h, ic) ==
    LET p == parse_from_string(h, ic)
        f == create_document_fragment(p.heap)
        h1 == IF lz[ic].state = "uninit" THEN AppendClones(f.heap, p.ids, f.root) ELSE h
        lz1 == IF lz[ic].state = "uninit"
               THEN [lz EXCEPT ![ic] = [state |-> "done", cell |-> Some(f.root),
                                        inits |-> lz[ic].inits + 1]]
               ELSE lz
        src == unwrap(lz1[ic].cell)
        c == clone_node_with_deep(h1, src)
    IN  [lazy |-> lz1, heap |-> c.heap, root |-> c.root, src |-> src,
         observed |-> Structure(h1, src)]

\* fn render_icon_svg(icon: Icon) -> Dom
render_icon_svg(lz, h, ic) == get_parsed_dom(lz, h[ic], ic)

\* DomBuilder::child(dom) with the Dom of a DocumentFragment: the append
\* moves the fragment's children into the element and leaves it empty
child(h, frag) ==
    [heap |-> [h EXCEPT ![frag].kids = <<>>], kids |-> h[frag].kids]

\* The trees of a list of nodes
Structures(h, ns) == [i \in 1..Len(ns) |-> Structure(h, ns[i])]

\* What is kept of a copy get_parsed_dom made: its root, the node it was
\* copied from and what that node was, what the copy was, how the access
\* got to it, and, once .child(..) has run, the children moved out of it
Copy(c, src, observed, path, m) ==
    [root |-> c.root, src |-> src, path |-> path, observed |-> observed,
     returned |-> Structure(c.heap, c.root), host |-> <<>>, appended |-> FALSE,
     touched |-> FALSE, after |-> m]

---------------------------------------------------------------------------
(* TextHelper *)

Dom(class, styles, text, children) ==
    [tag |-> "div", class |-> class, styles |-> styles,
     text |-> text, children |-> children]

apply_if(cond, styles, decl) == IF cond THEN Append(styles, decl) ELSE styles

render_with_style(text, font_style) ==
    LET s1 == << <<"font-size", scaled_size(font_style.size)>>,
                 <<"line-height", scaled_size(font_style.leading)>> >>
        s2 == apply_if(is_some(font_style.weight), s1,
                       <<"font-weight", unwrap(font_style.weight)>>)
        s3 == apply_if(is_some(font_style.style), s2,
                       <<"font-style", unwrap(font_style.style)>>)
    IN  Dom(StandardFontClass(lazy), s3, Some(text), <<>>)

TextHelper_preset(name) ==
    CASE name = "large_title" -> FontStyle_weight(FontStyle_new(F32(34), F32(41)), "bold")
      [] name = "title"       -> FontStyle_weight(FontStyle_new(F32(28), F32(34)), "bold")
      [] name = "title2"      -> FontStyle_weight(FontStyle_new(F32(22), F32(28)), "bold")
      [] name = "title3"      -> FontStyle_weight(FontStyle_new(F32(20), F32(25)), "bold")
      [] name = "headline"    -> FontStyle_weight(FontStyle_new(F32(17), F32(22)), "600")
      [] name = "body"        -> FontStyle_new(F32(17), F32(22))
      [] name = "callout"     -> FontStyle_italic(FontStyle_new(F32(16), F32(21)))
      [] name = "subheadline" -> FontStyle_new(F32(15), F32(20))
      [] name = "footnote"    -> FontStyle_new(F32(13), F32(18))
      [] name = "caption"     -> FontStyle_new(F32(12), F32(16))
      [] name = "caption2"    -> FontStyle_new(F32(11), F32(13))

---------------------------------------------------------------------------
(* IconHelper *)

IconHelper_new(icon) == [icon |-> icon, style |-> IconStyle_new(F32(16))]

IconHelper_custom_size(h, size) == [h EXCEPT !.style.size = size]

IconHelper_weight(h, weight) == [h EXCEPT !.style.weight = Some(weight)]

IconHelper_font_keeps_size(h, font_style) ==
    LET iw == font_weight_to_icon_weight(font_style.weight)
    IN  IF is_some(iw) THEN [h EXCEPT !.style.weight = Some(unwrap(iw))] ELSE h

IconHelper_font(h, font_style) ==
    LET h1 == [h EXCEPT !.style.size = font_style.size]
        iw == font_weight_to_icon_weight(font_style.weight)
    IN  IF is_some(iw) THEN [h1 EXCEPT !.style.weight = Some(unwrap(iw))] ELSE h1

IconHelper_preset_title2_regular(name) ==
    IF name = "title2" THEN FontStyle_new(F32(22), F32(28))
    ELSE TextHelper_preset(name)

IconHelper_preset(name) ==
    CASE name = "large_title" -> FontStyle_weight(FontStyle_new(F32(34), F32(41)), "bold")
      [] name = "title"       -> FontStyle_weight(FontStyle_new(F32(28), F32(34)), "bold")
      [] name = "title2"      -> FontStyle_weight(FontStyle_new(F32(22), F32(28)), "bold")
      [] name = "title3"      -> FontStyle_weight(FontStyle_new(F32(20), F32(25)), "bold")
      [] name = "headline"    -> FontStyle_weight(FontStyle_new(F32(17), F32(22)), "600")
      [] name = "body"        -> FontStyle_new(F32(17), F32(22))
      [] name = "callout"     -> FontStyle_italic(FontStyle_new(F32(16), F32(21)))
      [] name = "subheadline" -> FontStyle_new(F32(15), F32(20))
      [] name = "footnote"    -> FontStyle_new(F32(13), F32(18))
      [] name = "caption"     -> FontStyle_new(F32(12), F32(16))
      [] name = "caption2"    -> FontStyle_new(F32(11), F32(13))

IconHelper_finish(h) ==
    LET s1 == << <<"display", "inline-block">>,
                 <<"width", scaled_size(h.style.size)>>,
                 <<"height", scaled_size(h.style.size)>> >>
        s2 == apply_if(is_some(h.style.weight), s1,
                       <<"--icon-weight", FormatPx(unwrap(h.style.weight))>>)
        lz == LazyForcedClass(lazy, "STANDARD_FONT_CLASS")
        svg == render_icon_svg(lz, heap, h.icon)
        ch == child(svg.heap, svg.root)
    IN  [dom  |-> Dom(StandardFontClass(lazy), s2, None, Structures(ch.heap, ch.kids)),
         lazy |-> svg.lazy,
         heap |-> [heap EXCEPT ![h.icon] = ch.heap],
         copy |-> [Copy(svg, svg.src, svg.observed,
                        IF lazy[h.icon].state = "uninit" THEN "init" ELSE "fast", muts)
                     EXCEPT !.host = ch.kids, !.appended = TRUE]]

---------------------------------------------------------------------------
(* Inputs of the helper layer *)

\* custom_size and weight arguments, in hundredths
CustomSizes == {850, 2400}

CustomWeights == {150, 400}

\* FontStyle values handed to font() and custom(); the first is the one
\* icon_test and text_test use.
CustomFonts ==
    { FontStyle_italic(FontStyle_weight(FontStyle_new(F32(18), F32(24)), "500")),
      FontStyle_weight(FontStyle_new(F32(14), F32(19)), "normal") }

Texts == {"Body", "Title"}

WeightInputs ==
    {None, Some("bold"), Some("600"), Some("normal"), Some("500"),
     Some("Bold"), Some("700"), Some("")}

\* Values of TEXT_SCALE tried when the constant is changed (hundredths)
Scales == {50, 100, 150, 200}

NoHist == [op |-> "none", arg |-> None, before |-> None]

Hist(op, arg, before) == [op |-> op, arg |-> arg, before |-> before]

---------------------------------------------------------------------------
(* Operations of the helper layer *)

MaxRenders == 2

\* The icons rendered so far
Rendered == Len(frags["Trash"]) + Len(frags["Plus"])

icon(i) ==
    /\ helper' = Some(IconHelper_new(i))
    /\ hist' = Hist("icon", Some(i), helper)
    /\ out' = None
    /\ mapped' = None
    /\ UNCHANGED <<TEXT_SCALE, lazy, dispVars, cacheVars>>

custom_size(size) ==
    /\ is_some(helper)
    /\ helper' = Some(IconHelper_custom_size(unwrap(helper), size))
    /\ hist' = Hist("custom_size", Some(size), helper)
    /\ out' = None
    /\ mapped' = None
    /\ UNCHANGED <<TEXT_SCALE, lazy, dispVars, cacheVars>>

weight(w) ==
    /\ is_some(helper)
    /\ helper' = Some(IconHelper_weight(unwrap(helper), w))
    /\ hist' = Hist("weight", Some(w), helper)
    /\ out' = None
    /\ mapped' = None
    /\ UNCHANGED <<TEXT_SCALE, lazy, dispVars, cacheVars>>

font(font_style) ==
    /\ is_some(helper)
    /\ helper' = Some(IconHelper_font(unwrap(helper), font_style))
    /\ hist' = Hist("font", Some(font_style), helper)
    /\ out' = None
    /\ mapped' = None
    /\ UNCHANGED <<TEXT_SCALE, lazy, dispVars, cacheVars>>

\* IconHelper::large_title .. caption2: self.font(preset).finish()
IconTerminal(name) ==
    /\ is_some(helper)
    /\ Rendered < MaxRenders
    /\ LET r == IconHelper_finish(IconHelper_font(unwrap(helper), IconHelper_preset(name)))
       IN  /\ out' = Some(r.dom)
           /\ lazy' = r.lazy
           /\ heap' = r.heap
           /\ frags' = [frags EXCEPT ![unwrap(helper).icon] = Append(@, r.copy)]
    /\ helper' = None
    /\ hist' = Hist("icon_terminal", Some(name), helper)
    /\ mapped' = None
    /\ UNCHANGED <<TEXT_SCALE, dispVars, acc, seen, nacc, muts>>

\* IconHelper::custom
IconCustom(font_style) ==
    /\ is_some(helper)
    /\ Rendered < MaxRenders
    /\ LET r == IconHelper_finish(IconHelper_font(unwrap(helper), font_style))
       IN  /\ out' = Some(r.dom)
           /\ lazy' = r.lazy
           /\ heap' = r.heap
           /\ frags' = [frags EXCEPT ![unwrap(helper).icon] = Append(@, r.copy)]
    /\ helper' = None
    /\ hist' = Hist("icon_custom", Some(font_style), helper)
    /\ mapped' = None
    /\ UNCHANGED <<TEXT_SCALE, dispVars, acc, seen, nacc, muts>>

\* text(t).large_title() .. text(t).caption2()
TextTerminal(t, name) ==
    /\ out' = Some(render_with_style(t, TextHelper_preset(name)))
    /\ lazy' = LazyForcedClass(lazy, "STANDARD_FONT_CLASS")
    /\ hist' = Hist("text_terminal", Some(name), Some(t))
    /\ mapped' = None
    /\ UNCHANGED <<TEXT_SCALE, helper, dispVars, cacheVars>>

\* text(t).custom(font_style)
TextCustom(t, font_style) ==
    /\ out' = Some(render_with_style(t, font_style))
    /\ lazy' = LazyForcedClass(lazy, "STANDARD_FONT_CLASS")
    /\ hist' = Hist("text_custom", Some(font_style), Some(t))
    /\ mapped' = None
    /\ UNCHANGED <<TEXT_SCALE, helper, dispVars, cacheVars>>

\* a direct application of font_weight_to_icon_weight
MapWeight(w) ==
    /\ mapped' = Some([arg |-> w, res |-> font_weight_to_icon_weight(w)])
    /\ out' = None
    /\ hist' = Hist("font_weight_to_icon_weight", Some(w), None)
    /\ UNCHANGED <<TEXT_SCALE, helper, lazy, dispVars, cacheVars>>

HelperStart ==
    /\ helper = None
    /\ out = None
    /\ hist = NoHist
    /\ mapped = None

NextStyle ==
    \/ \E i \in Icons : icon(i)
    \/ \E s \in CustomSizes : custom_size(s)
    \/ \E w \in CustomWeights : weight(w)
    \/ \E fs \in CustomFonts : font(fs)
    \/ \E n \in ScaleNames : IconTerminal(n)
    \/ \E fs \in CustomFonts : IconCustom(fs)
    \/ \E t \in Texts, n \in ScaleNames : TextTerminal(t, n)
    \/ \E t \in Texts, fs \in CustomFonts : TextCustom(t, fs)
    \/ \E w \in WeightInputs : MapWeight(w)

---------------------------------------------------------------------------
(* Accesses to the statics, thread by thread *)

MaxAccesses == 4

MaxMutations == 1

\* The calls of the helper layer that use a static: Button::render (CLASS),
\* TextHelper::render_with_style (STANDARD_FONT_CLASS) and IconHelper::finish
\* (STANDARD_FONT_CLASS, then the PARSED_NODE of the icon's markup)
Calls ==
    {[key |-> "CLASS", icon |-> None], [key |-> "STANDARD_FONT_CLASS", icon |-> None]}
    \cup {[key |-> "STANDARD_FONT_CLASS", icon |-> Some(i)] : i \in Icons}

Idle == [pc |-> "idle", key |-> "", icon |-> None, path |-> "",
         kids |-> <<>>, frag |-> 0, i |-> 0, copy |-> 0]

\* Where a call goes on once it has the class name: finish goes on to
\* render_icon_svg, the other two are done with the statics
AfterClass(a) ==
    IF is_some(a.icon) THEN [Idle EXCEPT !.pc = "svg", !.key = unwrap(a.icon)]
    ELSE Idle

\* Lazy::force by thread t on the static a.key
Force(t, a) ==
    IF lazy[a.key].state = "done"
    THEN /\ UNCHANGED lazy
         /\ IF a.key \in ClassKeys
            THEN /\ seen' = seen \cup {[key |-> a.key, path |-> "fast",
                                        value |-> unwrap(lazy[a.key].cell)]}
                 /\ acc' = [acc EXCEPT ![t] = AfterClass(a)]
            ELSE /\ acc' = [acc EXCEPT ![t] = [a EXCEPT !.pc = "clone", !.path = "fast"]]
                 /\ UNCHANGED seen
    ELSE IF LazyVacant(lazy[a.key])
    THEN /\ lazy' = [lazy EXCEPT ![a.key].state = "running", ![a.key].inits = @ + 1]
         /\ acc' = [acc EXCEPT ![t] =
                      [a EXCEPT !.pc = IF a.key \in MarkupKeys THEN "parse" ELSE "init"]]
         /\ UNCHANGED seen
    ELSE IF lazy[a.key].state = "running"
    THEN /\ acc' = [acc EXCEPT ![t] = [a EXCEPT !.pc = "wait"]]
         /\ UNCHANGED <<lazy, seen>>
    ELSE \* poisoned: the call panics
         /\ acc' = [acc EXCEPT ![t] = Idle]
         /\ UNCHANGED <<lazy, seen>>

\* Thread t makes call c and reaches its first use of a static
Begin(t, c) ==
    /\ acc[t].pc = "idle"
    /\ nacc < MaxAccesses
    /\ nacc' = nacc + 1
    /\ Force(t, [Idle EXCEPT !.key = c.key, !.icon = c.icon])
    /\ UNCHANGED <<styleVars, dispVars, heap, frags, muts>>

\* finish reaches .child(render_icon_svg(self.icon)): PARSED_NODE is forced
RenderSvg(t) ==
    /\ acc[t].pc = "svg"
    /\ Force(t, acc[t])
    /\ UNCHANGED <<styleVars, dispVars, heap, frags, nacc, muts>>

\* The initializer of a class static: class! { ... }.into()
InitClass(t) ==
    /\ acc[t].pc = "init"
    /\ lazy' = [lazy EXCEPT ![acc[t].key].state = "done",
                            ![acc[t].key].cell = Some(ClassName(acc[t].key))]
    /\ seen' = seen \cup {[key |-> acc[t].key, path |-> "init",
                           value |-> ClassName(acc[t].key)]}
    /\ acc' = [acc EXCEPT ![t] = AfterClass(acc[t])]
    /\ UNCHANGED <<styleVars, dispVars, heap, frags, nacc, muts>>

\* The initializer of PARSED_NODE up to the loop: the parser, the document,
\* its body and the empty fragment
Parse(t) ==
    /\ acc[t].pc = "parse"
    /\ LET p == parse_from_string(heap[acc[t].key], acc[t].key)
           f == create_document_fragment(p.heap)
       IN  /\ heap' = [heap EXCEPT ![acc[t].key] = f.heap]
           /\ acc' = [acc EXCEPT ![t].pc = "loop", ![t].kids = p.ids,
                                 ![t].frag = f.root, ![t].i = 0]
    /\ UNCHANGED <<styleVars, dispVars, lazy, frags, seen, nacc, muts>>

\* One of the initializer's expect calls fails: the static is left without
\* a value and without its initializer
ParseFail(t) ==
    /\ acc[t].pc = "parse"
    /\ lazy' = [lazy EXCEPT ![acc[t].key].state = "poisoned"]
    /\ acc' = [acc EXCEPT ![t] = Idle]
    /\ UNCHANGED <<styleVars, dispVars, heap, frags, seen, nacc, muts>>

\* One turn of the loop over the body's children
LoopStep(t) ==
    /\ acc[t].pc = "loop"
    /\ acc[t].i < Len(acc[t].kids)
    /\ LET c == clone_node_with_deep(heap[acc[t].key], acc[t].kids[acc[t].i + 1])
       IN  heap' = [heap EXCEPT ![acc[t].key] = append_child(c.heap, acc[t].frag, c.root)]
    /\ acc' = [acc EXCEPT ![t].i = @ + 1]
    /\ UNCHANGED <<styleVars, dispVars, lazy, frags, seen, nacc, muts>>

\* The initializer returns NodeSync(fragment): the value is there for every
\* thread; the thread that ran it has yet to make its own copy
InitDone(t) ==
    /\ acc[t].pc = "loop"
    /\ acc[t].i = Len(acc[t].kids)
    /\ lazy' = [lazy EXCEPT ![acc[t].key].state = "done",
                            ![acc[t].key].cell = Some(acc[t].frag)]
    /\ acc' = [acc EXCEPT ![t].pc = "clone", ![t].path = "init"]
    /\ UNCHANGED <<styleVars, dispVars, heap, frags, seen, nacc, muts>>

\* A thread that found the initializer running sees it has ended
WaitEnd(t) ==
    /\ acc[t].pc = "wait"
    /\ lazy[acc[t].key].state \in {"done", "poisoned"}
    /\ IF lazy[acc[t].key].state = "poisoned"
       THEN /\ acc' = [acc EXCEPT ![t] = Idle]
            /\ UNCHANGED seen
       ELSE IF acc[t].key \in ClassKeys
       THEN /\ seen' = seen \cup {[key |-> acc[t].key, path |-> "wait",
                                   value |-> unwrap(lazy[acc[t].key].cell)]}
            /\ acc' = [acc EXCEPT ![t] = AfterClass(acc[t])]
       ELSE /\ acc' = [acc EXCEPT ![t].pc = "clone", ![t].path = "wait"]
            /\ UNCHANGED seen
    /\ UNCHANGED <<styleVars, dispVars, lazy, heap, frags, nacc, muts>>

\* get_parsed_dom once PARSED_NODE has its value: a deep copy of the cached
\* node, wrapped in a Dom
CloneParsed(t) ==
    /\ acc[t].pc = "clone"
    /\ LET k == acc[t].key
           src == unwrap(lazy[k].cell)
           c == clone_node_with_deep(heap[k], src)
       IN  /\ heap' = [heap EXCEPT ![k] = c.heap]
           /\ frags' = [frags EXCEPT ![k] =
                          Append(@, Copy(c, src, Structure(heap[k], src), acc[t].path, muts))]
           /\ acc' = [acc EXCEPT ![t].pc = "child", ![t].copy = Len(frags[k]) + 1]
    /\ UNCHANGED <<styleVars, dispVars, lazy, seen, nacc, muts>>

\* finish gives the copy to .child(..): its children move into the div
Child(t) ==
    /\ acc[t].pc = "child"
    /\ LET k == acc[t].key
           f == acc[t].copy
           ch == child(heap[k], frags[k][f].root)
       IN  /\ heap' = [heap EXCEPT ![k] = ch.heap]
           /\ frags' = [frags EXCEPT ![k][f].host = ch.kids, ![k][f].appended = TRUE]
    /\ acc' = [acc EXCEPT ![t] = Idle]
    /\ UNCHANGED <<styleVars, dispVars, lazy, seen, nacc, muts>>

\* The nodes that came with copy f of icon k: the fragment, what is below
\* it and what was moved out of it
CopyNodes(h, r) ==
    Nodes(h, r.root) \cup UNION { Nodes(h, r.host[i]) : i \in 1..Len(r.host) }

\* The <path> elements among them
Paths(h, r) == { m \in CopyNodes(h, r) : h[m].tag = "path" }

\* The host renderer changes the <path> of rendered icon f of icon k
Mutate(k, f) ==
    /\ muts < MaxMutations
    /\ frags[k][f].appended
    /\ \E n \in Paths(heap[k], frags[k][f]) :
          /\ heap[k][n].attr # "mutated"
          /\ heap' = [heap EXCEPT ![k][n].attr = "mutated"]
    /\ frags' = [frags EXCEPT ![k][f].touched = TRUE]
    /\ muts' = muts + 1
    /\ UNCHANGED <<styleVars, dispVars, lazy, acc, seen, nacc>>

CacheStart ==
    /\ heap = [k \in MarkupKeys |-> <<>>]
    /\ acc = [t \in Threads |-> Idle]
    /\ frags = [k \in MarkupKeys |-> <<>>]
    /\ seen = {}
    /\ nacc = 0
    /\ muts = 0

NextCache ==
    \/ \E t \in Threads, c \in Calls : Begin(t, c)
    \/ \E t \in Threads : RenderSvg(t)
    \/ \E t \in Threads : InitClass(t)
    \/ \E t \in Threads : Parse(t)
    \/ \E t \in Threads : ParseFail(t)
    \/ \E t \in Threads : LoopStep(t)
    \/ \E t \in Threads : InitDone(t)
    \/ \E t \in Threads : WaitEnd(t)
    \/ \E t \in Threads : CloneParsed(t)
    \/ \E t \in Threads : Child(t)
    \/ \E k \in MarkupKeys : \E f \in DOMAIN frags[k] : Mutate(k, f)

---------------------------------------------------------------------------
(* EventDispatcher and Button *)

\* The values of the event type A of a dispatcher the program makes itself
Events == {"e1", "e2"}

\* The buttons the program renders and the dispatchers it makes itself
Buttons == {"A", "B"}

Dispatchers == {"d"}

SlotIds == Buttons \cup Dispatchers

MaxClones == 1

MaxSends == 3

MaxDepth == 2

Top(t) == stack[t][Len(stack[t])]

Pop(t) == SubSeq(stack[t], 1, Len(stack[t]) - 1)

\* Code of thread t can run: at top level, or inside a callback
Running(t) ==
    /\ tstate[t] = "run"
    /\ IF stack[t] = <<>> THEN TRUE ELSE Top(t).pc = "call"

\* Arc::new(Mutex::new(listener))
Mutex_new == [live |-> TRUE, owner |-> "none", poisoned |-> FALSE]

NoSlot == [live |-> FALSE, owner |-> "none", poisoned |-> FALSE]

\* Mutex::lock without the lock: the caller always gets the listener
Mutex_lock_unguarded(slot, t) ==
    IF slot.poisoned THEN "poisoned" ELSE "acquired"

\* self.listener.lock(): what the calling thread t meets
Mutex_lock(slot, t) ==
    IF slot.owner = t THEN "reentrant"
    ELSE IF slot.owner # "none" THEN "busy"
    ELSE IF slot.poisoned THEN "poisoned"
    ELSE "acquired"

\* The slot a handle shares: handle h of dispatcher d holds d's Arc, the
\* click closure of button b holds the one Button::render made for b.
Listener(owner, h) == owner

SendRec(t, s, h, e, outcome) ==
    [thread |-> t, slot |-> Listener(s, h), handle |-> h, event |-> e,
     outcome |-> outcome]

Frame(i, s, pc) == [send |-> i, slot |-> s, pc |-> pc]

\* A panic raised in thread t's innermost code: it propagates into the
\* callback that made the call, if there is one.
Raise(t, stk) == [tstate EXCEPT ![t] = IF stk = <<>> THEN "run" ELSE "unwinding"]

\* EventDispatcher::new
New(t, d) ==
    /\ tstate[t] = "run" /\ stack[t] = <<>>
    /\ ~slots[d].live
    /\ slots' = [slots EXCEPT ![d] = Mutex_new]
    /\ handles' = [handles EXCEPT ![d] = 1]
    /\ UNCHANGED <<styleVars, cacheVars, lazy, buttons, stack, tstate, sends, calls>>

\* <EventDispatcher as Clone>::clone
Clone(t, d) ==
    /\ tstate[t] = "run" /\ stack[t] = <<>>
    /\ slots[d].live
    /\ handles[d] < 1 + MaxClones
    /\ handles' = [handles EXCEPT ![d] = @ + 1]
    /\ UNCHANGED <<styleVars, cacheVars, lazy, slots, buttons, stack, tstate, sends, calls>>

\* Button::render, on the UI thread; nothing else is using CLASS meanwhile
Render(b) ==
    /\ tstate["ui"] = "run" /\ stack["ui"] = <<>>
    /\ ~slots[b].live
    /\ lazy' = LazyForcedClass(lazy, "CLASS")
    /\ slots' = [slots EXCEPT ![b] = Mutex_new]
    /\ buttons' = [buttons EXCEPT ![b] = Some([class |-> unwrap(lazy'["CLASS"].cell)])]
    /\ UNCHANGED <<styleVars, cacheVars, handles, stack, tstate, sends, calls>>

\* EventDispatcher::send up to the call of the listener
Send(t, o, h, e) ==
    LET s == Listener(o, h)
        i == Len(sends) + 1
        r == Mutex_lock(slots[s], t)
    IN  /\ Len(sends) < MaxSends
        /\ Len(stack[t]) < MaxDepth
        /\ \/ /\ r = "acquired"
              /\ slots' = [slots EXCEPT ![s].owner = t]
              /\ stack' = [stack EXCEPT ![t] = Append(@, Frame(i, s, "call"))]
              /\ calls' = Append(calls, [slot |-> s, event |-> e, send |-> i])
              /\ sends' = Append(sends, SendRec(t, o, h, e, "running"))
              /\ UNCHANGED tstate
           \/ /\ r = "busy"
              /\ stack' = [stack EXCEPT ![t] = Append(@, Frame(i, s, "wait"))]
              /\ sends' = Append(sends, SendRec(t, o, h, e, "waiting"))
              /\ UNCHANGED <<slots, calls, tstate>>
           \/ /\ r = "poisoned"
              /\ sends' = Append(sends, SendRec(t, o, h, e, "lock_panicked"))
              /\ tstate' = Raise(t, stack[t])
              /\ UNCHANGED <<slots, calls, stack>>
           \/ /\ r = "reentrant"
              /\ sends' = Append(sends, SendRec(t, o, h, e, "lock_panicked"))
              /\ tstate' = Raise(t, stack[t])
              /\ UNCHANGED <<slots, calls, stack>>
           \/ /\ r = "reentrant"
              /\ sends' = Append(sends, SendRec(t, o, h, e, "deadlocked"))
              /\ stack' = [stack EXCEPT ![t] = Append(@, Frame(i, s, "wait"))]
              /\ tstate' = [tstate EXCEPT ![t] = "deadlocked"]
              /\ UNCHANGED <<slots, calls>>
        /\ UNCHANGED <<styleVars, cacheVars, lazy, handles, buttons>>

\* A click event delivered to button b: the closure of Button::render
Click(b) ==
    /\ tstate["ui"] = "run" /\ stack["ui"] = <<>>
    /\ is_some(buttons[b])
    /\ Send("ui", b, 0, "Clicked")

\* send on handle h of dispatcher d, from the top level or from a callback
UserSend(t, d, h, e) ==
    /\ Running(t)
    /\ h <= handles[d]
    /\ Send(t, d, h, e)

\* A send that found the lock held by another thread gets it
Acquire(t) ==
    /\ tstate[t] = "run" /\ stack[t] # <<>> /\ Top(t).pc = "wait"
    /\ LET f == Top(t)
           r == Mutex_lock(slots[f.slot], t)
       IN  \/ /\ r = "acquired"
              /\ slots' = [slots EXCEPT ![f.slot].owner = t]
              /\ stack' = [stack EXCEPT ![t][Len(stack[t])].pc = "call"]
              /\ calls' = Append(calls, [slot |-> f.slot, event |-> sends[f.send].event,
                                         send |-> f.send])
              /\ sends' = [sends EXCEPT ![f.send].outcome = "running"]
              /\ UNCHANGED tstate
           \/ /\ r = "poisoned"
              /\ sends' = [sends EXCEPT ![f.send].outcome = "lock_panicked"]
              /\ stack' = [stack EXCEPT ![t] = Pop(t)]
              /\ tstate' = Raise(t, Pop(t))
              /\ UNCHANGED <<slots, calls>>
    /\ UNCHANGED <<styleVars, cacheVars, lazy, handles, buttons>>

\* The listener returns; the guard is dropped and send returns
CallbackReturn(t) ==
    /\ tstate[t] = "run" /\ stack[t] # <<>> /\ Top(t).pc = "call"
    /\ slots' = [slots EXCEPT ![Top(t).slot].owner = "none"]
    /\ sends' = [sends EXCEPT ![Top(t).send].outcome = "returned"]
    /\ stack' = [stack EXCEPT ![t] = Pop(t)]
    /\ UNCHANGED <<styleVars, cacheVars, lazy, handles, buttons, tstate, calls>>

\* The innermost listener ends in a panic: the guard is dropped while
\* panicking, which poisons the mutex, and the panic goes on to the caller.
PanicTop(t) ==
    /\ slots' = [slots EXCEPT ![Top(t).slot].owner = "none",
                              ![Top(t).slot].poisoned = TRUE]
    /\ sends' = [sends EXCEPT ![Top(t).send].outcome = "callback_panicked"]
    /\ stack' = [stack EXCEPT ![t] = Pop(t)]
    /\ tstate' = Raise(t, Pop(t))
    /\ UNCHANGED <<styleVars, cacheVars, lazy, handles, buttons, calls>>

\* The listener itself panics
CallbackPanic(t) ==
    /\ tstate[t] = "run" /\ stack[t] # <<>> /\ Top(t).pc = "call"
    /\ PanicTop(t)

\* A panic of an inner send unwinds through the listener that made it
Unwind(t) ==
    /\ tstate[t] = "unwinding"
    /\ PanicTop(t)

DispatchStart ==
    /\ slots = [s \in SlotIds |-> NoSlot]
    /\ handles = [d \in Dispatchers |-> 0]
    /\ buttons = [b \in Buttons |-> None]
    /\ stack = [t \in Threads |-> <<>>]
    /\ tstate = [t \in Threads |-> "run"]
    /\ sends = <<>>
    /\ calls = <<>>

NextDispatch ==
    \/ \E t \in Threads, d \in Dispatchers : New(t, d)
    \/ \E t \in Threads, d \in Dispatchers : Clone(t, d)
    \/ \E b \in Buttons : Render(b)
    \/ \E b \in Buttons : Click(b)
    \/ \E t \in Threads, d \in Dispatchers, h \in 1..(1 + MaxClones), e \in Events :
          UserSend(t, d, h, e)
    \/ \E t \in Threads : Acquire(t)
    \/ \E t \in Threads : CallbackReturn(t)
    \/ \E t \in Threads : CallbackPanic(t)
    \/ \E t \in Threads : Unwind(t)

---------------------------------------------------------------------------
(* Specifications *)
(*                                                                         *)
(* The helpers, the threads using the statics, and the dispatchers each    *)
(* have their own next-state relation over the one initial state.  The     *)
(* helpers and Button::render run on the UI thread: there a use of a       *)
(* static is one step, the initializer included when it has not run yet    *)
(* (and does not fail).                                                    *)

LazyStart == lazy = [k \in Keys |-> LazyNew]

\* The program as built: TEXT_SCALE is 1.0
Init ==
    /\ TEXT_SCALE = 100
    /\ HelperStart
    /\ LazyStart
    /\ DispatchStart
    /\ CacheStart

\* The program built with TEXT_SCALE set to another value
InitScale ==
    /\ TEXT_SCALE \in Scales
    /\ HelperStart
    /\ LazyStart
    /\ DispatchStart
    /\ CacheStart

\* The text and icon helpers
SpecStyle == Init /\ [][NextStyle]_vars

\* The text and icon helpers under each value of TEXT_SCALE
SpecScale == InitScale /\ [][NextStyle]_vars

\* The event dispatchers and the buttons
SpecDispatch == Init /\ [][NextDispatch]_vars

\* The static asset cache
SpecCache == Init /\ [][NextCache]_vars

---------------------------------------------------------------------------
(* The typographic scale as documented, in the notation the output uses *)

ScaleDoc(name) ==
    CASE name = "large_title" ->
           [size |-> "34px", leading |-> "41px", weight |-> Some("bold"), italic |-> FALSE, stroke |-> Some("3px")]
      [] name = "title" ->
           [size |-> "28px", leading |-> "34px", weight |-> Some("bold"), italic |-> FALSE, stroke |-> Some("3px")]
      [] name = "title2" ->
           [size |-> "22px", leading |-> "28px", weight |-> Some("bold"), italic |-> FALSE, stroke |-> Some("3px")]
      [] name = "title3" ->
           [size |-> "20px", leading |-> "25px", weight |-> Some("bold"), italic |-> FALSE, stroke |-> Some("3px")]
      [] name = "headline" ->
           [size |-> "17px", leading |-> "22px", weight |-> Some("600"), italic |-> FALSE, stroke |-> Some("2.5px")]
      [] name = "body" ->
           [size |-> "17px", leading |-> "22px", weight |-> None, italic |-> FALSE, stroke |-> None]
      [] name = "callout" ->
           [size |-> "16px", leading |-> "21px", weight |-> None, italic |-> TRUE, stroke |-> None]
      [] name = "subheadline" ->
           [size |-> "15px", leading |-> "20px", weight |-> None, italic |-> FALSE, stroke |-> None]
      [] name = "footnote" ->
           [size |-> "13px", leading |-> "18px", weight |-> None, italic |-> FALSE, stroke |-> None]
      [] name = "caption" ->
           [size |-> "12px", leading |-> "16px", weight |-> None, italic |-> FALSE, stroke |-> None]
      [] name = "caption2" ->
           [size |-> "11px", leading |-> "13px", weight |-> None, italic |-> FALSE, stroke |-> None]

\* The declarations of a fragment named n, in emitted order
Decls(d, n) == SelectSeq(d.styles, LAMBDA p : p[1] = n)

\* A sequence holding x when o is Some(x): the declaration n: x
OptDecl(n, o) == IF is_some(o) THEN << <<n, unwrap(o)>> >> ELSE <<>>

FreshIcon(h) == \E i \in Icons : h = Some(IconHelper_new(i))

---------------------------------------------------------------------------
\* C4: every named scale entry is emitted with its documented size, leading,
\* weight and italic flag by the text helper, and with the same size and the
\* mapped stroke weight by the icon helper's method of the same name called
\* on a fresh icon(kind).
C4_ScaleEntriesMatch ==
    /\ hist.op = "text_terminal" =>
         LET d == ScaleDoc(unwrap(hist.arg))
         IN  unwrap(out).styles =
               << <<"font-size", d.size>>, <<"line-height", d.leading>> >>
               \o OptDecl("font-weight", d.weight)
               \o (IF d.italic THEN << <<"font-style", "italic">> >> ELSE <<>>)
    /\ (hist.op = "icon_terminal" /\ FreshIcon(hist.before)) =>
         LET d == ScaleDoc(unwrap(hist.arg))
         IN  unwrap(out).styles =
               << <<"display", "inline-block">>,
                  <<"width", d.size>>, <<"height", d.size>> >>
               \o OptDecl("--icon-weight", d.stroke)

\* icon(Plus).title() has been rendered: 28x28 with --icon-weight: 3px.
C4_Witness ==
    /\ hist = Hist("icon_terminal", Some("title"), Some(IconHelper_new("Plus")))
    /\ is_some(out)
    /\ Decls(unwrap(out), "width") = << <<"width", "28px">> >>
    /\ Decls(unwrap(out), "--icon-weight") = << <<"--icon-weight", "3px">> >>

\* C5: font_weight_to_icon_weight maps Some("bold") to 3.0, Some("600") to
\* 2.5, Some("normal") to 2.0 and every other input, None included, to None.
C5_WeightMapping ==
    is_some(mapped) =>
        LET a == unwrap(mapped).arg
            r == unwrap(mapped).res
        IN  /\ a = Some("bold") => r = Some(300)
            /\ a = Some("600") => r = Some(250)
            /\ a = Some("normal") => r = Some(200)
            /\ a \notin {Some("bold"), Some("600"), Some("normal")} => r = None

\* The function has been applied to Some("normal") and to nothing else since.
C5_Witness ==
    mapped = Some([arg |-> Some("normal"), res |-> Some(200)])

\* The FontStyle the last terminal operation used
LastFont ==
    IF hist.op \in {"icon_terminal"} THEN IconHelper_preset(unwrap(hist.arg))
    ELSE IF hist.op = "text_terminal" THEN TextHelper_preset(unwrap(hist.arg))
    ELSE unwrap(hist.arg)

\* C6: with TEXT_SCALE changed from 1 to k, every emitted pixel dimension
\* (font-size, line-height, width, height, --icon-weight) is k times its
\* value at scale 1, and the rest of the output is as at scale 1.
C6_ScaleMultipliesEveryPx ==
    /\ hist.op \in {"text_terminal", "text_custom"} =>
         unwrap(out) =
           Dom(STANDARD_FONT_CLASS,
               << <<"font-size", FormatPx(F32Mul(LastFont.size, TEXT_SCALE))>>,
                  <<"line-height", FormatPx(F32Mul(LastFont.leading, TEXT_SCALE))>> >>
               \o OptDecl("font-weight", LastFont.weight)
               \o OptDecl("font-style", LastFont.style),
               hist.before, <<>>)
    /\ hist.op \in {"icon_terminal", "icon_custom"} =>
         LET h == IconHelper_font(unwrap(hist.before), LastFont)
         IN  unwrap(out) =
               Dom(STANDARD_FONT_CLASS,
                   << <<"display", "inline-block">>,
                      <<"width", FormatPx(F32Mul(h.style.size, TEXT_SCALE))>>,
                      <<"height", FormatPx(F32Mul(h.style.size, TEXT_SCALE))>> >>
                   \o (IF is_some(h.style.weight)
                       THEN << <<"--icon-weight",
                                 FormatPx(F32Mul(unwrap(h.style.weight), TEXT_SCALE))>> >>
                       ELSE <<>>),
                   None, MarkupBody(h.icon))

\* The documented stroke weight of a font weight
StrokeDoc(w) ==
    CASE w = Some("bold") -> Some(300)
      [] w = Some("600") -> Some(250)
      [] w = Some("normal") -> Some(200)
      [] OTHER -> None

\* C10: font(fs) sets the size to fs.size and the weight to the mapped value
\* when there is one, else keeps the weight; custom_size changes only the
\* size and weight(w) only the weight; no call changes the icon kind; a
\* terminal method emits font(preset).finish(): a square of the preset's
\* size whatever custom_size was given before, with --icon-weight exactly
\* when the weight is set, so an earlier weight(w) survives a preset whose
\* font weight maps to no value.
C10_BuilderFrame ==
    /\ hist.op = "font" =>
         LET b == unwrap(hist.before)
             fs == unwrap(hist.arg)
             h == unwrap(helper)
         IN  /\ h.icon = b.icon
             /\ h.style.size = fs.size
             /\ h.style.weight =
                  (IF is_some(StrokeDoc(fs.weight)) THEN StrokeDoc(fs.weight)
                   ELSE b.style.weight)
    /\ hist.op = "custom_size" =>
         unwrap(helper) = [unwrap(hist.before) EXCEPT !.style.size = unwrap(hist.arg)]
    /\ hist.op = "weight" =>
         unwrap(helper) = [unwrap(hist.before) EXCEPT !.style.weight = hist.arg]
    /\ hist.op \in {"icon_terminal", "icon_custom"} =>
         LET b == unwrap(hist.before)
             w == IF is_some(StrokeDoc(LastFont.weight)) THEN StrokeDoc(LastFont.weight)
                  ELSE b.style.weight
             px == IF hist.op = "icon_terminal" THEN ScaleDoc(unwrap(hist.arg)).size
                   ELSE FormatPx(LastFont.size)
             o == unwrap(out)
         IN  /\ o = IconHelper_finish(IconHelper_font(b, LastFont)).dom
             /\ Decls(o, "width") = << <<"width", px>> >>
             /\ Decls(o, "height") = << <<"height", px>> >>
             /\ Decls(o, "--icon-weight") =
                  (IF is_some(w) THEN << <<"--icon-weight", FormatPx(unwrap(w))>> >>
                   ELSE <<>>)
             /\ o.children = MarkupBody(b.icon)

\* icon(Trash).custom_size(8.5).weight(1.5).body() has been rendered: 17x17,
\* and the weight of weight(1.5) is still emitted.
C10_Witness ==
    /\ hist.op = "icon_terminal"
    /\ hist.arg = Some("body")
    /\ hist.before = Some([icon |-> "Trash", style |-> [size |-> 850, weight |-> Some(150)]])
    /\ Decls(unwrap(out), "width") = << <<"width", "17px">> >>
    /\ Decls(unwrap(out), "--icon-weight") = << <<"--icon-weight", "1.5px">> >>

---------------------------------------------------------------------------
\* C2: for each cached static resource the initializer runs at most once,
\* no access returns before the initializer has completed (none sees a
\* partly built value), and every access observes the same value.
C2_InitOnceFullValue ==
    /\ \A k \in Keys : lazy[k].inits <= 1
    /\ \A r \in seen :
         /\ lazy[r.key].state = "done"
         /\ r.value = unwrap(lazy[r.key].cell)
         /\ r.value = ClassName(r.key)
    /\ \A k \in MarkupKeys : \A i \in DOMAIN frags[k] :
         /\ lazy[k].state = "done"
         /\ frags[k][i].src = unwrap(lazy[k].cell)
         /\ frags[k][i].observed = FragmentTree(k)

\* An access that found the initializer of an icon's markup running has
\* returned, as has the access that ran the initializer.
C2_Witness ==
    \E k \in MarkupKeys : \E i, j \in DOMAIN frags[k] :
        /\ frags[k][i].path = "init"
        /\ frags[k][j].path = "wait"
        /\ lazy[k].inits = 1

\* The nodes of copy i of icon k, and of the cached fragment
FragNodes(k, i) == CopyNodes(heap[k], frags[k][i])

CacheNodes(k) == Nodes(heap[k], unwrap(lazy[k].cell))

\* C3: every fragment render_icon_svg returns is a deep copy of the cached
\* fragment: equal in structure to the parsed source, and owned on its own,
\* so that changing or consuming one changes neither the cached fragment
\* nor any other returned fragment, and a later call returns the original
\* structure.
C3_IndependentCopies ==
    \A k \in MarkupKeys :
        /\ lazy[k].state = "done" =>
             Structure(heap[k], unwrap(lazy[k].cell)) = FragmentTree(k)
        /\ \A i \in DOMAIN frags[k] :
             /\ frags[k][i].returned = FragmentTree(k)
             /\ ~frags[k][i].appended =>
                  Structure(heap[k], frags[k][i].root) = FragmentTree(k)
             /\ frags[k][i].appended =>
                  /\ heap[k][frags[k][i].root].kids = <<>>
                  /\ ~frags[k][i].touched =>
                       Structures(heap[k], frags[k][i].host) = MarkupBody(k)
             /\ FragNodes(k, i) \cap CacheNodes(k) = {}
             /\ \A j \in DOMAIN frags[k] :
                  i # j => FragNodes(k, i) \cap FragNodes(k, j) = {}

\* Three copies of one icon's markup, each consumed by .child(..): the
\* second had its <path> changed by the host, and the third was made after
\* that and is as parsed.
C3_Witness ==
    \E k \in MarkupKeys :
        /\ Len(frags[k]) >= 3
        /\ \A i \in 1..3 : frags[k][i].appended
        /\ \E n \in FragNodes(k, 2) : heap[k][n].attr = "mutated"
        /\ frags[k][3].after >= 1
        /\ ~frags[k][3].touched
        /\ Structures(heap[k], frags[k][3].host) = MarkupBody(k)

---------------------------------------------------------------------------
\* The invocations in progress on slot s: the frames inside the listener
InProgress(s) ==
    { <<t, i>> \in Threads \X (1..MaxDepth + 1) :
        /\ i <= Len(stack[t])
        /\ stack[t][i].slot = s
        /\ stack[t][i].pc = "call" }

\* The invocations of the listener of slot s, in the order they started
CallsOf(s) == SelectSeq(calls, LAMBDA c : c.slot = s)

SendsOf(s) == SelectSeq(sends, LAMBDA x : x.slot = s)

Quiescent == \A t \in Threads : stack[t] = <<>> /\ tstate[t] = "run"

OnlyUi == \A i \in DOMAIN sends : sends[i].thread = "ui"

\* C1: every click on a rendered button invokes its callback exactly once,
\* with Clicked, and never without a click; sends through any handles of a
\* dispatcher all reach the one shared callback, so that after n sends it
\* has been invoked exactly n times, in the order of the sends.
C1_ExactlyOncePerSend ==
    (Quiescent /\ OnlyUi) =>
        /\ Len(calls) = Len(sends)
        /\ \A i \in DOMAIN calls :
             /\ calls[i].send = i
             /\ calls[i].slot = sends[i].slot
             /\ calls[i].event = sends[i].event
             /\ calls[i].slot \in Buttons => calls[i].event = "Clicked"

\* C7: each rendered button has a dispatcher of its own: a click on one
\* button invokes that button's callback and no other, each callback being
\* invoked as many times as its own button was clicked, while all buttons
\* carry the one memoized class.
C7_ButtonsIndependent ==
    (Quiescent /\ OnlyUi) =>
        /\ \A b \in Buttons :
             /\ Len(CallsOf(b)) = Len(SendsOf(b))
             /\ \A i \in DOMAIN calls :
                  calls[i].slot = b <=> sends[calls[i].send].slot = b
        /\ \A a, b \in Buttons :
             (is_some(buttons[a]) /\ is_some(buttons[b])) => buttons[a] = buttons[b]

\* C8: on every slot at most one invocation of the listener is in progress,
\* and it is the lock holder's; an invocation starts only when the ones
\* before it on that slot have ended.
C8_MutualExclusion ==
    \A s \in SlotIds :
        /\ Cardinality(InProgress(s)) <= 1
        /\ \A f \in InProgress(s) : slots[s].owner = f[1]
        /\ \A i, j \in DOMAIN calls :
             (i < j /\ calls[i].slot = s /\ calls[j].slot = s) =>
                 sends[calls[i].send].outcome \in {"returned", "callback_panicked"}

\* One thread is inside the listener of a slot while a send of the other
\* thread on the same slot waits, after an earlier invocation has ended.
C8_Witness ==
    \E i, j, k \in DOMAIN sends :
        /\ sends[i].slot = sends[j].slot /\ sends[j].slot = sends[k].slot
        /\ sends[i].outcome = "returned"
        /\ sends[j].outcome = "running"
        /\ sends[k].outcome = "waiting"
        /\ sends[j].handle # sends[k].handle

\* C9: every send, in every state, invokes the callback and returns: none
\* ends at the lock, neither a send made from inside the running callback
\* nor one made after an earlier invocation failed.
C9_SendAlwaysInvokes ==
    \A i \in DOMAIN sends : sends[i].outcome \notin {"lock_panicked", "deadlocked"}

=============================================================================
